---- MODULE Spec2Model ----
(***************************************************************************)
(* QueryIT: a retrieval-augmented generation pipeline.                     *)
(*   data_loader.py  load_and_chunk_pdf, _batch_iter, embed_texts          *)
(*   vector_db.py    QdrantStorage (collection, upsert, search)            *)
(*   custom_types.py the pydantic step results                             *)
(*   main.py         the two Inngest flows rag_ingest_pdf, rag_query_pdf_ai*)
(*                                                                         *)
(* Python strings are modelled as sequences of one-character strings, so   *)
(* that str.strip, str.join and f-string formatting are computed.          *)
(***************************************************************************)
EXTENDS Integers, Sequences, FiniteSets, TLC

VARIABLES
    flow,     \* per flow invocation: the event, the position, the step results
    store,    \* the points of the Qdrant collection: point id -> point
    call      \* the last direct call of a library function (component specs)

vars == <<flow, store, call>>

-----------------------------------------------------------------------------
(* Bounds of the model *)

MaxSegs == 3         \* split segments of one document (flows)
MaxFlows == 2        \* flow invocations
MaxRetries == 1      \* retries the runtime grants a failing step
MaxChunkSegs == 3    \* split segments of one document (chunker alone)
MaxPad == 1          \* whitespace on either side of a split segment (chunker alone)
MaxTexts == 201      \* texts of one embed_texts call (embedder alone)
MaxOffset == 2       \* first text of an embed_texts call (embedder alone)
MaxPoints == 3       \* points written by direct upsert calls (adapter alone)
MaxClients == 2      \* concurrent clients of the adapter
MaxArgs == 2         \* ids of one upsert call of a client
MaxSrcLen == 2       \* characters of a source id (identity alone)
MaxIndex == 11       \* chunk index (identity alone)

(* constants.py, and the default of top_k in main.py *)
MAX_EMBED_BATCH == 100
EMBEDDING_DIM == 3072
DEFAULT_TOP_K == 5

-----------------------------------------------------------------------------
(* Python strings *)

EmptyStr == << >>
IsSpace(c) == c \in {" ", "\n"}

RECURSIVE LStrip(_)
LStrip(s) ==
    IF s = EmptyStr THEN s
    ELSE IF IsSpace(Head(s)) THEN LStrip(Tail(s)) ELSE s

RECURSIVE RStrip(_)
RStrip(s) ==
    IF s = EmptyStr THEN s
    ELSE IF IsSpace(s[Len(s)]) THEN RStrip(SubSeq(s, 1, Len(s) - 1)) ELSE s

\* str.strip()
Strip(s) == RStrip(LStrip(s))

DigitChars == <<"0", "1", "2", "3", "4", "5", "6", "7", "8", "9">>

\* str(i) of a non-negative integer, as an f-string formats it
RECURSIVE IntToStr(_)
IntToStr(i) ==
    IF i < 10 THEN <<DigitChars[i + 1]>>
    ELSE Append(IntToStr(i \div 10), DigitChars[(i % 10) + 1])

\* sep.join(parts)
RECURSIVE Join(_, _)
Join(sep, parts) ==
    IF parts = << >> THEN EmptyStr
    ELSE IF Len(parts) = 1 THEN parts[1]
    ELSE parts[1] \o sep \o Join(sep, Tail(parts))

\* All sequences over S of length at most n
SeqsUpTo(S, n) == UNION {[1..k -> S] : k \in 0..n}

Range(f) == {f[x] : x \in DOMAIN f}

-----------------------------------------------------------------------------
(* data_loader.py: the chunker's post-processing *)

\* (c.strip() for c in chunks if c.strip())
RECURSIVE StripNonEmpty(_)
StripNonEmpty(segs) ==
    IF segs = << >> THEN << >>
    ELSE IF Strip(Head(segs)) # EmptyStr
         THEN <<Strip(Head(segs))>> \o StripNonEmpty(Tail(segs))
         ELSE StripNonEmpty(Tail(segs))

\* list(dict.fromkeys(items)): the keys in order of first insertion
RECURSIVE DictFromKeys(_, _)
DictFromKeys(items, keys) ==
    IF items = << >> THEN keys
    ELSE IF Head(items) \in Range(keys)
         THEN DictFromKeys(Tail(items), keys)
         ELSE DictFromKeys(Tail(items), Append(keys, Head(items)))

\* load_and_chunk_pdf, from the output of splitter.split_texts on
LoadAndChunkPdfNoDedup(segs) == StripNonEmpty(segs)
LoadAndChunkPdf(segs) == DictFromKeys(StripNonEmpty(segs), << >>)

-----------------------------------------------------------------------------
(* data_loader.py: the embedder *)

\* The provider's embedding of one text (gemini-embedding-001, a collaborator)
Embedding(text) == [model |-> "gemini-embedding-001", of |-> text]

\* gemini_client.models.embed_content(contents=batch): one vector per text,
\* in the order of the batch
EmbedContent(batch) == [i \in 1..Len(batch) |-> Embedding(batch[i])]

Min(a, b) == IF a < b THEN a ELSE b

\* _batch_iter: items[i : i + batch_size] for i in range(0, len(items), batch_size)
RECURSIVE BatchIterFrom(_, _, _)
BatchIterFrom(items, batch_size, i) ==
    IF i >= Len(items) THEN << >>
    ELSE <<SubSeq(items, i + 1, Min(i + batch_size, Len(items)))>>
         \o BatchIterFrom(items, batch_size, i + batch_size)

BatchIterBroken(items, batch_size) ==
    IF Len(items) > batch_size
    THEN <<SubSeq(items, 1, batch_size)>>
    ELSE BatchIterFrom(items, batch_size, 0)
BatchIter(items, batch_size) == BatchIterFrom(items, batch_size, 0)

\* the batches embed_texts sends to the provider
EmbedBatches(texts) == BatchIter(texts, MAX_EMBED_BATCH)

\* all_embeddings.extend(batch_embeddings), batch after batch
RECURSIVE ExtendAll(_)
ExtendAll(batches) ==
    IF batches = << >> THEN << >>
    ELSE EmbedContent(Head(batches)) \o ExtendAll(Tail(batches))

EmbedTexts(texts) == ExtendAll(EmbedBatches(texts))

-----------------------------------------------------------------------------
(* Python dictionaries: functions on the set of their keys *)

EmptyDict == << >>

\* d.get(key, default)
DictGet(d, key, default) == IF key \in DOMAIN d THEN d[key] ELSE default

-----------------------------------------------------------------------------
(* main.py: the identity of a point *)

\* uuid.uuid5(namespace, name): a hash of the name within the namespace
Uuid5(namespace, name) == [namespace |-> namespace, name |-> name]

\* f"{source_id}:{i}"
PointNameNoSep(source_id, i) == source_id \o IntToStr(i)
PointName(source_id, i) == source_id \o <<":">> \o IntToStr(i)

\* str(uuid.uuid5(uuid.NAMESPACE_URL, f"{source_id}:{i}")), i counted from 0
PointIdNoSource(source_id, i) == Uuid5("NAMESPACE_URL", IntToStr(i))
PointId(source_id, i) == Uuid5("NAMESPACE_URL", PointName(source_id, i))

\* {"source": source_id, "text": chunks[i]}
PayloadBroken(source_id, text) == [source |-> source_id, text |-> text \o <<" ">>]
Payload(source_id, text) == [source |-> source_id, text |-> text]

\* ids of _upsert: one per chunk, in chunk order
IngestIds(source_id, chunks) == [i \in 1..Len(chunks) |-> PointId(source_id, i - 1)]

\* payloads of _upsert
IngestPayloads(source_id, chunks) ==
    [i \in 1..Len(chunks) |-> Payload(source_id, chunks[i])]

-----------------------------------------------------------------------------
(* vector_db.py: QdrantStorage *)

EmptyPoints == << >>

\* a Qdrant server without the collection
NoCollection == [exists |-> FALSE, dim |-> 0, points |-> EmptyPoints]

\* __init__: create the collection when it does not exist
QdrantStorage(st) ==
    IF st.exists THEN st
    ELSE [exists |-> TRUE, dim |-> EMBEDDING_DIM, points |-> EmptyPoints]

\* PointStruct(id=ids[i], vector=vectors[i], payload=payloads[i])
PointStruct(vector, payload) == [vector |-> vector, payload |-> payload]

\* the list comprehension of upsert indexes vectors and payloads by range(len(ids))
UpsertRaises(ids, vectors, payloads) ==
    Len(vectors) < Len(ids) \/ Len(payloads) < Len(ids)

LastIndexOf(ids, id) ==
    CHOOSE i \in 1..Len(ids) : ids[i] = id /\ \A j \in (i + 1)..Len(ids) : ids[j] # id

\* client.upsert(collection, points): insert or overwrite, keyed by id
UpsertPointsDup(points, ids, vectors, payloads) ==
    [id \in DOMAIN points \cup Range(ids)
            \cup {Uuid5("copy", i.name) : i \in Range(ids) \cap DOMAIN points} |->
        IF id \in DOMAIN points THEN points[id]
        ELSE LET i == LastIndexOf(ids, Uuid5("NAMESPACE_URL", id.name))
             IN  PointStruct(vectors[i], payloads[i])]
UpsertPointsKeep(points, ids, vectors, payloads) ==
    [id \in DOMAIN points \cup Range(ids) |->
        IF id \in DOMAIN points THEN points[id]
        ELSE LET i == LastIndexOf(ids, id) IN PointStruct(vectors[i], payloads[i])]
UpsertPointsMerge(points, ids, vectors, payloads) ==
    [id \in DOMAIN points \cup Range(ids) |->
        IF id \in Range(ids)
        THEN LET i == LastIndexOf(ids, id)
             IN  IF id \in DOMAIN points
                 THEN PointStruct(vectors[i],
                        [source |-> payloads[i].source,
                         text |-> points[id].payload.text \o payloads[i].text])
                 ELSE PointStruct(vectors[i], payloads[i])
        ELSE points[id]]
UpsertPoints(points, ids, vectors, payloads) ==
    [id \in DOMAIN points \cup Range(ids) |->
        IF id \in Range(ids)
        THEN LET i == LastIndexOf(ids, id) IN PointStruct(vectors[i], payloads[i])
        ELSE points[id]]

\* client.upsert refuses vectors whose size is not the collection's; the
\* embedder asks for vectors of size EMBEDDING_DIM
WrongVectorSize(st, ids) == ids # << >> /\ st.dim # EMBEDDING_DIM

\* upsert(ids, vectors, payloads)
Upsert(st, ids, vectors, payloads) ==
    IF UpsertRaises(ids, vectors, payloads) \/ WrongVectorSize(st, ids) THEN st
    ELSE [st EXCEPT !.points = UpsertPoints(st.points, ids, vectors, payloads)]

\* All sequences of k distinct elements of S (all of S when it has fewer)
RECURSIVE Arrangements(_, _)
Arrangements(S, k) ==
    IF k <= 0 \/ S = {} THEN {<< >>}
    ELSE UNION {{<<x>> \o r : r \in Arrangements(S \ {x}, k - 1)} : x \in S}

\* client.query_points(query, limit=top_k, with_payload=True).points: the
\* top_k nearest points in rank order; the ranking is the store's
QueryPoints(points, query_vector, top_k) ==
    {[i \in 1..Len(r) |-> [id |-> r[i], payload |-> points[r[i]].payload]] :
        r \in Arrangements(DOMAIN points, top_k)}

\* getattr(r, "payload", None) or {}
None == [none |-> TRUE]
PayloadOrEmpty(payload) ==
    IF payload = None \/ DOMAIN payload = {} THEN EmptyDict ELSE payload

ResultTextFromSource(r) == DictGet(PayloadOrEmpty(r.payload), "source", EmptyStr)
ResultText(r) == DictGet(PayloadOrEmpty(r.payload), "text", EmptyStr)
ResultSource(r) == DictGet(PayloadOrEmpty(r.payload), "source", EmptyStr)

\* the loop of search: contexts.append(text) for every result with a text
SearchContextsBroken(results) ==
    [i \in 1..Len(results) |-> ResultText(results[i])]
RECURSIVE SearchContexts(_)
SearchContexts(results) ==
    IF results = << >> THEN << >>
    ELSE IF ResultText(Head(results)) # EmptyStr
         THEN <<ResultText(Head(results))>> \o SearchContexts(Tail(results))
         ELSE SearchContexts(Tail(results))

\* the loop of search: sources.add(source) for every result with a text
SearchSources(results) ==
    {ResultSource(results[i]) :
        i \in {j \in 1..Len(results) : ResultText(results[j]) # EmptyStr}}

\* list(sources): the elements of the set, in an order the set decides
ListOfSet(S) == Arrangements(S, Cardinality(S))

-----------------------------------------------------------------------------
(* custom_types.py: the pydantic models of the step results *)

ValidationError == [error |-> "ValidationError"]

\* pydantic.BaseModel(**kwargs): every required field must be given; a field
\* that is not declared is ignored, an optional one defaults to None
BaseModel(fields, required, kwargs) ==
    IF required \subseteq DOMAIN kwargs
    THEN [k \in fields |-> IF k \in DOMAIN kwargs THEN kwargs[k] ELSE None]
    ELSE ValidationError

\* class RAGChunkAndSrc: chunks: list[str]; source_id: str = None
RAGChunkAndSrc(kwargs) == BaseModel({"chunks", "source_id"}, {"chunks"}, kwargs)

\* class RAGUpsertResult: inngest: int
RAGUpsertResult(kwargs) == BaseModel({"inngest"}, {"inngest"}, kwargs)

\* class RAGSearchResult: contexts: list[str]; sources: list[str]
RAGSearchResult(kwargs) ==
    BaseModel({"contexts", "sources"}, {"contexts", "sources"}, kwargs)

-----------------------------------------------------------------------------
(* main.py: the inputs of the flows *)

Flows == 1..MaxFlows

Paths == {<<"p">>}
SourceIds == {<<"d">>}

\* ctx.event.data of rag/ingest_pdf
IngestEvents ==
    {[pdf_path |-> p] : p \in Paths}
    \cup {[pdf_path |-> p, source_id |-> s] : p \in Paths, s \in SourceIds}
    \cup {[pdf_path |-> p, source |-> s] : p \in Paths, s \in SourceIds}

\* the segments splitter.split_texts returns for the document
FlowTexts == {<<"a">>, <<"b">>, <<"c">>, <<"e">>, <<" ">>, <<"a", " ">>}
Docs == SeqsUpTo(FlowTexts, MaxSegs)

\* ctx.event.data of rag/query_pdf_ai
Questions == {<<"q">>}
QueryEvents ==
    {[question |-> q] : q \in Questions}
    \cup {[question |-> q, top_k |-> k] : q \in Questions, k \in {1, 2}}

\* the text of the model's first candidate
LlmTexts == {<<"x">>, <<" ", "x", "\n">>}

\* a flow that has not been triggered
NoFlow ==
    [kind |-> "none", pc |-> "PENDING", data |-> EmptyDict, attempts |-> 0,
     faulty |-> FALSE, step1 |-> None, upserts |-> 0, matched |-> None,
     infers |-> 0, prompt |-> None, result |-> None]

Terminal(fl) == fl.pc \in {"COMPLETE", "FAILED"}

\* a step raised: the runtime retries it, and fails the flow when the retries
\* are used up (nothing of a failed invocation is kept but its failure);
\* collab tells whether a collaborator raised
StepFailedRestart(fl, collab) ==
    IF fl.attempts < MaxRetries
    THEN [fl EXCEPT !.attempts = @ + 1, !.faulty = @ \/ collab,
                    !.pc = IF fl.kind = "ingest" THEN "load-and-chunk"
                           ELSE "embed-and-search"]
    ELSE [NoFlow EXCEPT !.kind = fl.kind, !.pc = "FAILED", !.faulty = fl.faulty \/ collab,
                        !.upserts = fl.upserts, !.infers = fl.infers]
StepFailed(fl, collab) ==
    IF fl.attempts < MaxRetries
    THEN [fl EXCEPT !.attempts = @ + 1, !.faulty = @ \/ collab]
    ELSE [NoFlow EXCEPT !.kind = fl.kind, !.pc = "FAILED", !.faulty = fl.faulty \/ collab,
                        !.upserts = fl.upserts, !.infers = fl.infers]

-----------------------------------------------------------------------------
(* main.py: rag_ingest_pdf *)

\* the event rag/ingest_pdf triggers an invocation
TriggerIngest(f, data) ==
    /\ flow[f].kind = "none"
    /\ \A g \in Flows : g < f => flow[g].kind # "none"
    /\ flow' = [flow EXCEPT ![f] = [NoFlow EXCEPT !.kind = "ingest",
                                       !.pc = "load-and-chunk", !.data = data]]
    /\ UNCHANGED <<store, call>>

\* source_id = ctx.event.data.get("source", pdf_path)
ResolveSource(data) == DictGet(data, "source", data["pdf_path"])

\* _load
Load(data, segs) ==
    RAGChunkAndSrc([chunks |-> LoadAndChunkPdf(segs), source_id |-> ResolveSource(data)])

\* step "load-and-chunk" (_load); the flow does not read the event again
LoadAndChunk(f) ==
    /\ flow[f].kind = "ingest"
    /\ flow[f].pc = "load-and-chunk"
    /\ \E fault \in BOOLEAN :
         IF fault
         THEN flow' = [flow EXCEPT ![f] = StepFailed(@, TRUE)]
         ELSE \E segs \in Docs :
                flow' = [flow EXCEPT ![f].step1 = Load(flow[f].data, segs),
                                     ![f].data = EmptyDict,
                                     ![f].pc = "embed-and-upsert",
                                     ![f].attempts = 0]
    /\ UNCHANGED <<store, call>>

\* ingested.model_dump(): the fields of the model, as a dictionary
ModelDump(model) == [k \in DOMAIN model |-> model[k]]

\* step "embed-and-upsert" (_upsert), and the return of the flow
EmbedAndUpsert(f) ==
    /\ flow[f].kind = "ingest"
    /\ flow[f].pc = "embed-and-upsert"
    /\ \E fault \in {"none", "embed", "upsert"} :
         LET chunks == flow[f].step1.chunks
             source_id == flow[f].step1.source_id
             vectors == EmbedTexts(chunks)
             ids == IngestIds(source_id, chunks)
             payloads == IngestPayloads(source_id, chunks)
             db == QdrantStorage(store)
             ingested == RAGUpsertResult([ingested |-> Len(chunks)])
         IN  CASE fault = "embed" ->
                   /\ flow' = [flow EXCEPT ![f] = StepFailed(@, TRUE)]
                   /\ store' = store
               [] fault = "upsert" ->
                   /\ flow' = [flow EXCEPT ![f] = StepFailed(@, TRUE)]
                   /\ store' = db
               [] OTHER ->
                   /\ store' = Upsert(db, ids, vectors, payloads)
                   /\ flow' = [flow EXCEPT ![f] =
                        IF ingested = ValidationError
                        THEN StepFailed([@ EXCEPT !.upserts = @ + 1], FALSE)
                        ELSE [@ EXCEPT !.upserts = @ + 1, !.pc = "COMPLETE",
                                       !.result = ModelDump(ingested)]]
    /\ UNCHANGED call

-----------------------------------------------------------------------------
(* main.py: rag_query_pdf_ai *)

\* the event rag/query_pdf_ai triggers an invocation
TriggerQuery(f, data) ==
    /\ flow[f].kind = "none"
    /\ \A g \in Flows : g < f => flow[g].kind # "none"
    /\ flow' = [flow EXCEPT ![f] = [NoFlow EXCEPT !.kind = "query",
                                       !.pc = "embed-and-search", !.data = data]]
    /\ UNCHANGED <<store, call>>

\* top_k = int(ctx.event.data.get("top_k", 5))
TopK(data) == DictGet(data, "top_k", DEFAULT_TOP_K)

\* search(query_vector, top_k) on the results the store returned, with the
\* order list(sources) came out in
Search(results, sources) ==
    [contexts |-> SearchContexts(results), sources |-> sources]

\* step "embed-and-search" (_search)
EmbedAndSearch(f) ==
    /\ flow[f].kind = "query"
    /\ flow[f].pc = "embed-and-search"
    /\ \E fault \in BOOLEAN :
         IF fault
         THEN /\ flow' = [flow EXCEPT ![f] = StepFailed(@, TRUE)]
              /\ store' = store
         ELSE LET query_vector == EmbedTexts(<<flow[f].data["question"]>>)[1]
                  db == QdrantStorage(store)
              IN  /\ store' = db
                  /\ \E results \in QueryPoints(db.points, query_vector, TopK(flow[f].data)) :
                     \E sources \in ListOfSet(SearchSources(results)) :
                       LET found == Search(results, sources)
                       IN  flow' = [flow EXCEPT
                             ![f].step1 = RAGSearchResult([contexts |-> found.contexts,
                                                           sources |-> found.sources]),
                             ![f].matched = [i \in 1..Len(results) |-> results[i].id],
                             ![f].pc = "llm-answer",
                             ![f].attempts = 0]
    /\ UNCHANGED call

\* "\n\n".join(f"- {c}" for c in found.contexts)
ContextBlockDashed(contexts) ==
    <<"-", " ">> \o Join(<<"\n", "\n", "-", " ">>, contexts)
ContextBlock(contexts) ==
    Join(<<"\n", "\n">>, [i \in 1..Len(contexts) |-> <<"-", " ">> \o contexts[i]])

\* user_content; each literal of the f-string is one element
UserContent(context_block, question) ==
    <<"Answer the question using ONLY the context below.\n\n", "Context:\n">>
    \o context_block \o <<"\n\n", "Question: ">> \o question \o <<"\n\n">>

\* step "llm-answer" (ctx.step.ai.infer), and the return of the flow
LlmAnswer(f) ==
    /\ flow[f].kind = "query"
    /\ flow[f].pc = "llm-answer"
    /\ \E fault \in BOOLEAN :
         IF fault
         THEN flow' = [flow EXCEPT ![f] = StepFailed([@ EXCEPT !.infers = @ + 1], TRUE)]
         ELSE \E text \in LlmTexts :
                LET found == flow[f].step1
                    context_block == ContextBlock(found.contexts)
                    user_content == UserContent(context_block, flow[f].data["question"])
                IN  flow' = [flow EXCEPT
                      ![f].infers = @ + 1,
                      ![f].prompt = user_content,
                      ![f].matched = None,
                      ![f].pc = "COMPLETE",
                      ![f].result = [answer |-> Strip(text),
                                     sources |-> found.sources,
                                     num_contexts |-> Len(found.contexts)]]
    /\ UNCHANGED <<store, call>>

-----------------------------------------------------------------------------
(* The flows, sharing one collection *)

NoCall == [op |-> "none"]

Init ==
    /\ flow = [f \in Flows |-> NoFlow]
    /\ store = NoCollection
    /\ call = NoCall

Next ==
    \/ \E f \in Flows, data \in IngestEvents : TriggerIngest(f, data)
    \/ \E f \in Flows : LoadAndChunk(f)
    \/ \E f \in Flows : EmbedAndUpsert(f)
    \/ \E f \in Flows, data \in QueryEvents : TriggerQuery(f, data)
    \/ \E f \in Flows : EmbedAndSearch(f)
    \/ \E f \in Flows : LlmAnswer(f)

Spec == Init /\ [][Next]_vars

-----------------------------------------------------------------------------
(* The chunker alone: load_and_chunk_pdf on every output of the splitter *)

Spaces(n) == [i \in 1..n |-> " "]

\* split segments: a text, possibly empty, possibly with inner whitespace,
\* between leading and trailing whitespace
ChunkCores == {EmptyStr, <<"a">>, <<"a", " ", "b">>}
ChunkStrs == {Spaces(l) \o c \o Spaces(r) : l \in 0..MaxPad, r \in 0..MaxPad, c \in ChunkCores}
ChunkDocs == SeqsUpTo(ChunkStrs, MaxChunkSegs)

InitChunk ==
    /\ flow = [f \in Flows |-> NoFlow]
    /\ store = NoCollection
    /\ call \in {[op |-> "input", segs |-> segs] : segs \in ChunkDocs}

ChunkCall ==
    /\ call.op = "input"
    /\ call' = [op |-> "load_and_chunk_pdf", segs |-> call.segs,
                chunks |-> LoadAndChunkPdf(call.segs)]
    /\ UNCHANGED <<flow, store>>

NextChunk == ChunkCall

SpecChunk == InitChunk /\ [][NextChunk]_vars

-----------------------------------------------------------------------------
(* The embedder alone: embed_texts on lists of up to MaxTexts texts *)

\* n different texts
TextsFrom(offset, n) == [i \in 1..n |-> IntToStr(offset + i)]

InitEmbed ==
    /\ flow = [f \in Flows |-> NoFlow]
    /\ store = NoCollection
    /\ call \in {[op |-> "input", texts |-> TextsFrom(offset, n)] :
                    offset \in 0..MaxOffset, n \in 0..MaxTexts}

EmbedCall ==
    /\ call.op = "input"
    /\ call' = [op |-> "embed_texts", texts |-> call.texts,
                batches |-> EmbedBatches(call.texts),
                vectors |-> EmbedTexts(call.texts)]
    /\ UNCHANGED <<flow, store>>

NextEmbed == EmbedCall

SpecEmbed == InitEmbed /\ [][NextEmbed]_vars

-----------------------------------------------------------------------------
(* The adapter alone: upsert and search called directly, on points whose    *)
(* payload may lack a text or a source                                      *)

StoreIds == {PointId(<<"d">>, i) : i \in 0..(MaxPoints - 1)}

StorePayloads ==
    {None, EmptyDict, [text |-> <<"a">>],
     [source |-> <<"d">>, text |-> EmptyStr],
     [source |-> <<"d">>, text |-> <<"a">>],
     [source |-> <<"d">>, text |-> <<"b">>],
     [source |-> <<"e">>, text |-> <<"a">>]}

\* a client of the adapter: it upserts points, then searches once
InitStore ==
    /\ flow = [f \in Flows |-> NoFlow]
    /\ store = NoCollection
    /\ call \in {[op |-> "input", top_k |-> top_k] : top_k \in 1..(MaxPoints + 1)}

\* QdrantStorage().upsert(ids, vectors, payloads)
UpsertCall(ids, vectors, payloads) ==
    /\ call.op = "input"
    /\ store' = Upsert(QdrantStorage(store), ids, vectors, payloads)
    /\ UNCHANGED <<flow, call>>

\* QdrantStorage().search(query_vector, top_k)
SearchCall(query_vector) ==
    /\ call.op = "input"
    /\ LET db == QdrantStorage(store)
       IN  /\ store' = db
           /\ \E results \in QueryPoints(db.points, query_vector, call.top_k) :
              \E sources \in ListOfSet(SearchSources(results)) :
                call' = [op |-> "search", top_k |-> call.top_k, results |-> results,
                         found |-> Search(results, sources)]
    /\ UNCHANGED flow

NextStore ==
    \/ \E id \in StoreIds, payload \in StorePayloads :
         UpsertCall(<<id>>, <<Embedding(<<"v">>)>>, <<payload>>)
    \/ SearchCall(Embedding(<<"q">>))

SpecStore == InitStore /\ [][NextStore]_vars

-----------------------------------------------------------------------------
(* The adapter under concurrent clients: each constructs QdrantStorage(),   *)
(* one request to the server at a time, and then calls upsert once          *)

Clients == 1..MaxClients

\* the size of the collection's vectors under the earlier configuration
OtherDim == EMBEDDING_DIM \div 2

\* the server before the clients start: without the collection, or with a
\* collection created under this or under the earlier configuration
AdapterStores ==
    {NoCollection} \cup
    {[exists |-> TRUE, dim |-> dim, points |-> EmptyPoints] : dim \in {EMBEDDING_DIM, OtherDim}}

NewClient ==
    [pc |-> "new", error |-> "none", ids |-> << >>, vectors |-> << >>, payloads |-> << >>]

InitAdapter ==
    /\ flow = [f \in Flows |-> NoFlow]
    /\ store \in AdapterStores
    /\ call = [c \in Clients |-> NewClient]

\* __init__: self.client.collection_exists(self.collection)
CollectionExists(c) ==
    /\ call[c].pc = "new"
    /\ call' = [call EXCEPT ![c].pc = IF store.exists THEN "open" ELSE "create"]
    /\ UNCHANGED <<flow, store>>

\* __init__: self.client.create_collection(...), which the server refuses for
\* a collection that exists
CreateCollection(c) ==
    /\ call[c].pc = "create"
    /\ IF store.exists
       THEN /\ call' = [call EXCEPT ![c].pc = "raised", ![c].error = "Conflict"]
            /\ store' = store
       ELSE /\ call' = [call EXCEPT ![c].pc = "open"]
            /\ store' = QdrantStorage(store)
    /\ UNCHANGED flow

\* the arguments of the clients' upsert calls: n ids, and vectors and payloads
\* that may be one fewer or one more
ArgIds(n) == [i \in 1..n |-> PointId(<<"d">>, i - 1)]
ArgVectors(n) == [i \in 1..n |-> Embedding(IntToStr(i))]
ArgPayloads(n) == [i \in 1..n |-> Payload(<<"d">>, IntToStr(i))]
ArgLens ==
    {l \in (0..MaxArgs) \X (0..(MaxArgs + 1)) \X (0..(MaxArgs + 1)) :
        l[2] \in {l[1] - 1, l[1], l[1] + 1} /\ l[3] \in {l[1] - 1, l[1], l[1] + 1}}

\* upsert(ids, vectors, payloads) on the adapter the client constructed
ClientUpsert(c, ids, vectors, payloads) ==
    /\ call[c].pc = "open"
    /\ store' = Upsert(store, ids, vectors, payloads)
    /\ call' = [call EXCEPT ![c] =
         [pc |-> IF UpsertRaises(ids, vectors, payloads) \/ WrongVectorSize(store, ids)
                 THEN "raised" ELSE "done",
          error |-> IF UpsertRaises(ids, vectors, payloads) THEN "IndexError"
                    ELSE IF WrongVectorSize(store, ids) THEN "WrongVectorSize"
                    ELSE "none",
          ids |-> ids, vectors |-> vectors, payloads |-> payloads]]
    /\ UNCHANGED flow

NextAdapter ==
    \/ \E c \in Clients : CollectionExists(c)
    \/ \E c \in Clients : CreateCollection(c)
    \/ \E c \in Clients, l \in ArgLens :
         ClientUpsert(c, ArgIds(l[1]), ArgVectors(l[2]), ArgPayloads(l[3]))

SpecAdapter == InitAdapter /\ [][NextAdapter]_vars

-----------------------------------------------------------------------------
(* The identity alone: the point ids of two pairs (source_id, index), the   *)
(* source ids holding letters, digits and the separator                     *)

IdentChars == {"d", "1", ":"}
IdentSources == SeqsUpTo(IdentChars, MaxSrcLen)
IdentPairs == IdentSources \X (0..MaxIndex)

InitIdent ==
    /\ flow = [f \in Flows |-> NoFlow]
    /\ store = NoCollection
    /\ call \in {[op |-> "input", a |-> a, b |-> b] : a \in IdentPairs, b \in IdentPairs}

\* the id of a, of b, and of a once more
IdentCall ==
    /\ call.op = "input"
    /\ call' = [op |-> "point_id", a |-> call.a, b |-> call.b,
                name_a |-> PointName(call.a[1], call.a[2]),
                name_b |-> PointName(call.b[1], call.b[2]),
                id_a |-> PointId(call.a[1], call.a[2]),
                id_b |-> PointId(call.b[1], call.b[2]),
                again |-> PointId(call.a[1], call.a[2])]
    /\ UNCHANGED <<flow, store>>

NextIdent == IdentCall

SpecIdent == InitIdent /\ [][NextIdent]_vars

-----------------------------------------------------------------------------
(* Properties of the ingest flow *)

\* the step "embed-and-upsert" of flow f performs its upsert in this step
UpsertStep(f) ==
    /\ flow[f].kind = "ingest"
    /\ flow[f].pc = "embed-and-upsert"
    /\ flow'[f].upserts = flow[f].upserts + 1

\* the ids of the points whose payload names the source
SourcePoints(points, source_id) ==
    {id \in DOMAIN points : points[id].payload.source = source_id}

\* C1: in an ingest flow none of whose collaborators fails, the step
\* embed-and-upsert run on the N chunks of load-and-chunk completes the flow,
\* which returns {ingested: N}; the step does not fail and the flow does not
\* end in FAILED.
C1_IngestReturnsCount ==
    [][\A f \in Flows :
        (UpsertStep(f) /\ ~flow'[f].faulty)
        => /\ flow'[f].pc = "COMPLETE"
           /\ flow'[f].result = [ingested |-> Len(flow[f].step1.chunks)]
      ]_vars

\* C2: when embed-and-upsert upserts the N chunks of source s into an empty
\* collection, the store holds exactly N points afterwards, with the ids
\* point_id(s,0..N-1), and point_id(s,i) carries {source: s, text: chunk i}
\* and the embedding of chunk i.
C2_UpsertStoresChunks ==
    [][\A f \in Flows :
        (UpsertStep(f) /\ store.points = EmptyPoints)
        => LET s == flow[f].step1.source_id
               chunks == flow[f].step1.chunks
               N == Len(chunks)
           IN  /\ DOMAIN store'.points = {PointId(s, i) : i \in 0..(N - 1)}
               /\ Cardinality(DOMAIN store'.points) = N
               /\ \A i \in 0..(N - 1) :
                    /\ store'.points[PointId(s, i)].payload
                         = [source |-> s, text |-> chunks[i + 1]]
                    /\ store'.points[PointId(s, i)].vector = Embedding(chunks[i + 1])
      ]_vars

\* C2 witness: a 3-chunk document has been upserted and the store holds 3 points
C2_Witness ==
    \E f \in Flows :
        /\ flow[f].kind = "ingest"
        /\ flow[f].upserts >= 1
        /\ Len(flow[f].step1.chunks) = 3
        /\ Cardinality(DOMAIN store.points) = 3

\* the store holds the points of an ingestion of these chunks under this source
Ingested(points, source_id, chunks) ==
    \A i \in 1..Len(chunks) :
        /\ PointId(source_id, i - 1) \in DOMAIN points
        /\ points[PointId(source_id, i - 1)].payload
             = [source |-> source_id, text |-> chunks[i]]

\* C3: an upsert of a source and chunk list whose points the store already
\* holds (the same content was ingested before) adds no point id and leaves
\* every point's payload as it was.
C3_ReingestIdempotent ==
    [][\A f \in Flows :
        (UpsertStep(f)
         /\ Ingested(store.points, flow[f].step1.source_id, flow[f].step1.chunks))
        => /\ DOMAIN store'.points = DOMAIN store.points
           /\ \A id \in DOMAIN store.points :
                store'.points[id].payload = store.points[id].payload
      ]_vars

\* C3 witness: two flows have ingested the same source with the same chunks
C3_Witness ==
    \E f, g \in Flows :
        /\ f # g
        /\ flow[f].kind = "ingest" /\ flow[g].kind = "ingest"
        /\ flow[f].upserts >= 1 /\ flow[g].upserts >= 1
        /\ flow[f].step1 = flow[g].step1
        /\ Len(flow[f].step1.chunks) >= 2
        /\ Ingested(store.points, flow[f].step1.source_id, flow[f].step1.chunks)

\* the texts the store holds for source s at point_id(s,0..2)
OldChunks(s) ==
    <<store.points[PointId(s, 0)].payload.text,
      store.points[PointId(s, 1)].payload.text,
      store.points[PointId(s, 2)].payload.text>>

\* the document with x in place of segment j
Replaced(segs, j, x) == [i \in 1..Len(segs) |-> IF i = j THEN x ELSE segs[i]]

\* flow f upserts an ingestion of a source which the store holds with
\* exactly 3 chunks
ReingestOfThree(f) ==
    /\ UpsertStep(f)
    /\ LET s == flow[f].step1.source_id
       IN  /\ SourcePoints(store.points, s) = {PointId(s, i) : i \in 0..2}
           /\ LoadAndChunkPdf(OldChunks(s)) = OldChunks(s)

\* the document flow f ingests is the one the store holds, with x in place
\* of chunk j
OneChanged(f, j, x) ==
    /\ Strip(x) # OldChunks(flow[f].step1.source_id)[j]
    /\ flow[f].step1.chunks
         = LoadAndChunkPdf(Replaced(OldChunks(flow[f].step1.source_id), j, x))

\* afterwards the source still has its 3 points, point j has the new text and
\* the other two are as before
OneChangedInStore(s, j, x) ==
    /\ SourcePoints(store'.points, s) = {PointId(s, i) : i \in 0..2}
    /\ store'.points[PointId(s, j - 1)].payload = [source |-> s, text |-> Strip(x)]
    /\ \A i \in (1..3) \ {j} :
         store'.points[PointId(s, i - 1)].payload = store.points[PointId(s, i - 1)].payload

\* C4 as stated: whatever the new text of the changed chunk is, the store is
\* left with the 3 points, the changed one updated, the other two unchanged.
C4_AnyNewText ==
    [][\A f \in Flows :
        ReingestOfThree(f)
        => \A j \in 1..3, x \in FlowTexts :
             OneChanged(f, j, x) => OneChangedInStore(flow[f].step1.source_id, j, x)
      ]_vars

\* C4 amended: when the new text is non-empty after trimming and differs from
\* the other chunks of the document, the store is left with the 3 points, the
\* changed one holding the trimmed new text, the other two unchanged.
C4_NewDistinctText ==
    [][\A f \in Flows :
        ReingestOfThree(f)
        => \A j \in 1..3, x \in FlowTexts :
             (/\ OneChanged(f, j, x)
              /\ Strip(x) # EmptyStr
              /\ \A i \in (1..3) \ {j} :
                   Strip(x) # OldChunks(flow[f].step1.source_id)[i])
             => OneChangedInStore(flow[f].step1.source_id, j, x)
      ]_vars

\* C4 witness: a source ingested with 3 chunks has been ingested again by
\* another flow with exactly one chunk replaced by a new, distinct text
C4_Witness ==
    \E f, g \in Flows :
        /\ f # g
        /\ flow[f].kind = "ingest" /\ flow[g].kind = "ingest"
        /\ flow[f].upserts >= 1 /\ flow[g].upserts >= 1
        /\ flow[f].step1.source_id = flow[g].step1.source_id
        /\ Len(flow[f].step1.chunks) = 3 /\ Len(flow[g].step1.chunks) = 3
        /\ Cardinality({i \in 1..3 : flow[f].step1.chunks[i] # flow[g].step1.chunks[i]}) = 1
        /\ Ingested(store.points, flow[g].step1.source_id, flow[g].step1.chunks)

\* the source id the event asks for: its source_id, else its pdf_path
EventSourceId(data) == DictGet(data, "source_id", data["pdf_path"])

\* C5: the source id load-and-chunk hands to embed-and-upsert, which builds
\* the point ids and the payloads from it, is the event's source_id when the
\* event has one and its pdf_path otherwise.
C5_SourceIdOfEvent ==
    [][\A f \in Flows :
        (flow[f].pc = "load-and-chunk" /\ flow'[f].pc = "embed-and-upsert")
        => flow'[f].step1.source_id = EventSourceId(flow[f].data)
      ]_vars

\* C11: a load-and-chunk that finds no text fails the flow in that step: no
\* flow is ever at embed-and-upsert with an empty chunk list, so that step is
\* never run on one (no upsert, the store as it was).
C11_EmptyInputFails ==
    \A f \in Flows :
        (flow[f].kind = "ingest" /\ flow[f].pc = "embed-and-upsert")
        => flow[f].step1.chunks # << >>

\* C15: when the step embed-and-upsert of a flow runs again after its upsert
\* took effect (no other flow having written), on the same checkpointed
\* chunks and source, the store holds the same ids with the same payloads as
\* after the first execution, and no further point.
C15_RetryIdempotent ==
    [][\A f \in Flows :
        (/\ UpsertStep(f)
         /\ flow[f].upserts >= 1
         /\ \A g \in Flows \ {f} : flow[g].upserts = 0)
        => /\ DOMAIN store'.points = DOMAIN store.points
           /\ Cardinality(DOMAIN store'.points) = Len(flow[f].step1.chunks)
           /\ \A id \in DOMAIN store.points :
                store'.points[id].payload = store.points[id].payload
      ]_vars

\* C15 witness: the only flow that wrote has upserted its 3 chunks twice, no
\* collaborator failing, and the store holds 3 points
C15_Witness ==
    \E f \in Flows :
        /\ flow[f].kind = "ingest"
        /\ flow[f].upserts = 2
        /\ ~flow[f].faulty
        /\ \A g \in Flows \ {f} : flow[g].upserts = 0
        /\ Cardinality(DOMAIN store.points) = 3

\* flow g is an ingest flow whose checkpointed chunks wait for, or are in,
\* its step embed-and-upsert
AtUpsert(g) == flow[g].kind = "ingest" /\ flow[g].pc = "embed-and-upsert"

\* the points the upsert of flow g's step writes on the points given
WriteOf(g, points) ==
    UpsertPoints(points,
                 IngestIds(flow[g].step1.source_id, flow[g].step1.chunks),
                 EmbedTexts(flow[g].step1.chunks),
                 IngestPayloads(flow[g].step1.source_id, flow[g].step1.chunks))

\* the ids flow g writes
IdsOf(g) == Range(IngestIds(flow[g].step1.source_id, flow[g].step1.chunks))

\* C16: an upsert of an ingest flow leaves every point of another source in
\* the store, unchanged; the ids of two flows of different sources are
\* disjoint and their writes commute (either order of the two writes leaves
\* the same store), so that once two such flows, the only writers, have both
\* written, the store holds exactly the points of each.
C16_DisjointSourcesCommute ==
    /\ [][\A f \in Flows :
            UpsertStep(f)
            => /\ \A id \in DOMAIN store.points :
                    store.points[id].payload.source # flow[f].step1.source_id
                    => id \in DOMAIN store'.points /\ store'.points[id] = store.points[id]
               /\ \A g \in Flows \ {f} :
                    (AtUpsert(g) /\ flow[g].step1.source_id # flow[f].step1.source_id)
                    => /\ IdsOf(f) \cap IdsOf(g) = {}
                       /\ WriteOf(g, store'.points)
                            = WriteOf(f, WriteOf(g, QdrantStorage(store).points))
         ]_vars
    /\ [](\A f, g \in Flows :
            (/\ f # g /\ AtUpsert(f) /\ AtUpsert(g)
             /\ flow[f].upserts >= 1 /\ flow[g].upserts >= 1
             /\ flow[f].step1.source_id # flow[g].step1.source_id
             /\ \A h \in Flows \ {f, g} : flow[h].upserts = 0)
            => /\ DOMAIN store.points = IdsOf(f) \cup IdsOf(g)
               /\ Cardinality(DOMAIN store.points)
                    = Len(flow[f].step1.chunks) + Len(flow[g].step1.chunks)
               /\ Ingested(store.points, flow[f].step1.source_id, flow[f].step1.chunks)
               /\ Ingested(store.points, flow[g].step1.source_id, flow[g].step1.chunks))

\* C16 witness: two ingest flows of different sources, of 3 and 2 chunks, have
\* both written and the store holds the 5 points
C16_Witness ==
    \E f, g \in Flows :
        /\ AtUpsert(f) /\ AtUpsert(g)
        /\ flow[f].upserts = 1 /\ flow[g].upserts = 1
        /\ flow[f].step1.source_id # flow[g].step1.source_id
        /\ Len(flow[f].step1.chunks) = 3 /\ Len(flow[g].step1.chunks) = 2
        /\ Cardinality(DOMAIN store.points) = 5

\* the points an ingestion of the chunks first and then one of the chunks
\* second, both under source s, leave in an empty collection: every index
\* holds the chunk of second when second has one, else the chunk of first
SeqResult(s, first, second) ==
    LET n == IF Len(first) > Len(second) THEN Len(first) ELSE Len(second)
        text(i) == IF i <= Len(second) THEN second[i] ELSE first[i]
    IN  [id \in {PointId(s, i - 1) : i \in 1..n} |->
            LET i == CHOOSE k \in 1..n : PointId(s, k - 1) = id
            IN  [vector |-> Embedding(text(i)),
                 payload |-> [source |-> s, text |-> text(i)]]]

\* f and g are the only flows that have written
OnlyWriters(f, g) == \A h \in Flows \ {f, g} : flow[h].upserts = 0

\* C17: when two ingest flows of the same source are the only writers, an
\* upsert of one that follows a write of the other leaves the points of the
\* other's ingestion followed by its own, whatever writes and retries came
\* before; and when both have written the store holds the result of one of
\* the two sequential orders.
C17_SameSourceConverges ==
    /\ [][\A f \in Flows : \A g \in Flows \ {f} :
            (/\ UpsertStep(f) /\ AtUpsert(g) /\ flow[g].upserts >= 1
             /\ flow[g].step1.source_id = flow[f].step1.source_id
             /\ OnlyWriters(f, g))
            => store'.points = SeqResult(flow[f].step1.source_id,
                                         flow[g].step1.chunks, flow[f].step1.chunks)
         ]_vars
    /\ [](\A f \in Flows : \A g \in Flows \ {f} :
            (/\ AtUpsert(f) /\ AtUpsert(g)
             /\ flow[f].upserts >= 1 /\ flow[g].upserts >= 1
             /\ flow[g].step1.source_id = flow[f].step1.source_id
             /\ OnlyWriters(f, g))
            => store.points \in
                 {SeqResult(flow[f].step1.source_id, flow[g].step1.chunks, flow[f].step1.chunks),
                  SeqResult(flow[f].step1.source_id, flow[f].step1.chunks, flow[g].step1.chunks)})

\* C17 witness: two flows of the same source, of 3 chunks and of 2 other
\* chunks, have both written; the store holds the 2 chunks of the one and the
\* third of the other
C17_Witness ==
    \E f, g \in Flows :
        /\ AtUpsert(f) /\ AtUpsert(g)
        /\ flow[f].upserts = 1 /\ flow[g].upserts = 1
        /\ flow[f].step1.source_id = flow[g].step1.source_id
        /\ Len(flow[f].step1.chunks) = 3 /\ Len(flow[g].step1.chunks) = 2
        /\ flow[f].step1.chunks[1] # flow[g].step1.chunks[1]
        /\ flow[f].step1.chunks[2] # flow[g].step1.chunks[2]
        /\ store.points = SeqResult(flow[f].step1.source_id,
                                    flow[f].step1.chunks, flow[g].step1.chunks)

\* C19: after an upsert of an ingest flow the points whose payload names the
\* flow's source are exactly point_id(s,0..M-1), M the number of chunks of
\* this ingestion, so that no point of an earlier, longer ingestion remains.
C19_OnlyLatestIngestion ==
    [][\A f \in Flows :
        UpsertStep(f)
        => SourcePoints(store'.points, flow[f].step1.source_id)
             = {PointId(flow[f].step1.source_id, i - 1) : i \in 1..Len(flow[f].step1.chunks)}
      ]_vars

-----------------------------------------------------------------------------
(* Properties of the query flow *)

\* the step "embed-and-search" of flow f completes in this step
SearchStep(f) ==
    /\ flow[f].kind = "query"
    /\ flow[f].pc = "embed-and-search"
    /\ flow'[f].pc = "llm-answer"

\* C6: a search step run on a collection without points yields no contexts
\* and no sources; every query flow that has returned has invoked llm-answer
\* (once when no collaborator failed), returns as num_contexts the number of
\* contexts of embed-and-search and as sources that step's sources, and with
\* no contexts the prompt had an empty context block and num_contexts is 0.
C6_QueryOnEmptyCollection ==
    /\ [][\A f \in Flows :
            (SearchStep(f) /\ store.points = EmptyPoints)
            => /\ flow'[f].step1.contexts = << >>
               /\ flow'[f].step1.sources = << >>
         ]_vars
    /\ [](\A f \in Flows :
            (flow[f].kind = "query" /\ flow[f].pc = "COMPLETE")
            => /\ flow[f].infers >= 1
               /\ ~flow[f].faulty => flow[f].infers = 1
               /\ flow[f].result.num_contexts = Len(flow[f].step1.contexts)
               /\ flow[f].result.sources = flow[f].step1.sources
               /\ flow[f].step1.contexts = << >>
                    => /\ flow[f].result.num_contexts = 0
                       /\ flow[f].prompt
                            = <<"Answer the question using ONLY the context below.\n\n",
                                "Context:\n", "\n\n", "Question: ">>
                              \o flow[f].data["question"] \o <<"\n\n">>)

\* C6 witness: a query without top_k (so top_k = 5) has returned from a
\* collection that has no points, with no contexts and no sources
C6_Witness ==
    \E f \in Flows :
        /\ flow[f].kind = "query"
        /\ flow[f].pc = "COMPLETE"
        /\ TopK(flow[f].data) = 5
        /\ store.points = EmptyPoints
        /\ flow[f].infers = 1
        /\ flow[f].result.num_contexts = 0
        /\ flow[f].result.sources = << >>

\* C8: every text the store holds under an id among the matched points of a
\* search (the text the last upsert of that id stored) is, unchanged, one of
\* the contexts the search returns.
C8_StoredTextRetrieved ==
    [][\A f \in Flows :
        SearchStep(f)
        => \A j \in 1..Len(flow'[f].matched) :
             store.points[flow'[f].matched[j]].payload.text
               \in Range(flow'[f].step1.contexts)
      ]_vars

\* C8 witness: after an ingestion, a search has matched two points and
\* returned their two texts
C8_Witness ==
    \E f, g \in Flows :
        /\ flow[g].kind = "ingest" /\ flow[g].upserts >= 1
        /\ flow[f].kind = "query" /\ flow[f].pc = "llm-answer"
        /\ Len(flow[f].matched) = 2
        /\ Len(flow[f].step1.contexts) = 2
        /\ \A j \in 1..2 :
             store.points[flow[f].matched[j]].payload.text = flow[f].step1.contexts[j]

-----------------------------------------------------------------------------
(* Properties of the steps of a flow *)

FirstStep(kind) == IF kind = "ingest" THEN "load-and-chunk" ELSE "embed-and-search"
SecondStep(kind) == IF kind = "ingest" THEN "embed-and-upsert" ELSE "llm-answer"

\* C14: in every step of a triggered flow, the second step of the flow is
\* entered only from the first, with the first step's result checkpointed;
\* the first step is never entered again once it has completed; while the
\* second step runs or is retried the checkpointed result stays as it is; and
\* the second step works on that result: the upsert writes the checkpointed
\* chunks under the checkpointed source, the prompt and the returned sources
\* are those of the checkpointed search.
C14_StepsInOrderOnce ==
    [][\A f \in Flows :
        flow[f].kind # "none"
        => LET kind == flow[f].kind
               first == FirstStep(kind)
               second == SecondStep(kind)
           IN  /\ (flow[f].pc # second /\ flow'[f].pc = second)
                    => flow[f].pc = first /\ flow'[f].step1 \notin {None, ValidationError}
               /\ flow[f].pc # first => flow'[f].pc # first
               /\ flow'[f].pc = "COMPLETE" => flow[f].pc \in {second, "COMPLETE"}
               /\ (flow[f].pc = second /\ flow'[f].pc \in {second, "COMPLETE"})
                    => flow'[f].step1 = flow[f].step1
               /\ UpsertStep(f)
                    => Ingested(store'.points, flow[f].step1.source_id, flow[f].step1.chunks)
               /\ (kind = "query" /\ flow[f].pc = second /\ flow'[f].pc = "COMPLETE")
                    => /\ flow'[f].prompt
                            = UserContent(ContextBlock(flow[f].step1.contexts),
                                          flow[f].data["question"])
                       /\ flow'[f].result.sources = flow[f].step1.sources
                       /\ flow'[f].result.num_contexts = Len(flow[f].step1.contexts)
      ]_vars

\* C14 witness: a query flow whose llm-answer was retried has returned the
\* contexts of its one search, and an ingest flow has retried its upsert of
\* the chunks it loaded once
C14_Witness ==
    \E f, g \in Flows :
        /\ flow[f].kind = "query" /\ flow[f].pc = "COMPLETE"
        /\ flow[f].infers = 2
        /\ flow[f].result.num_contexts >= 1
        /\ flow[g].kind = "ingest" /\ flow[g].pc = "FAILED"
        /\ flow[g].upserts = 2

-----------------------------------------------------------------------------
(* Properties of search *)

\* the stored payload of a result has a non-empty text
HasText(r) == "text" \in DOMAIN r.payload /\ r.payload["text"] # EmptyStr

\* the source value of a result ("" when the payload has none)
SourceOf(r) == IF "source" \in DOMAIN r.payload THEN r.payload["source"] ELSE EmptyStr

\* C7: search returns at most top_k contexts: the texts of the matched points
\* that have a non-empty text, one each, in rank order; points without a text
\* add no context and no source; sources has no duplicates and holds exactly
\* the source values of the points that gave a context.
C7_SearchContextsAndSources ==
    call.op = "search"
    => LET results == call.results
           contexts == call.found.contexts
           sources == call.found.sources
           withText == {j \in 1..Len(results) : HasText(results[j])}
       IN  /\ Len(contexts) <= call.top_k
           /\ Len(contexts) = Cardinality(withText)
           /\ \A j \in withText :
                contexts[Cardinality({i \in withText : i <= j})] = results[j].payload["text"]
           /\ \A i, j \in 1..Len(sources) : sources[i] = sources[j] => i = j
           /\ Range(sources) = {SourceOf(results[j]) : j \in withText}

\* C7 witness: a search matched a point without a text and two points with a
\* text and the same source
C7_Witness ==
    /\ call.op = "search"
    /\ Len(call.results) = 3
    /\ Len(call.found.contexts) = 2
    /\ Len(call.found.sources) = 1
    /\ \E j \in 1..3 : ~HasText(call.results[j])

-----------------------------------------------------------------------------
(* Properties of the chunker *)

NonSpace(s) == \E k \in 1..Len(s) : s[k] # " "

\* t is s without its leading and trailing whitespace
IsTrimOf(t, s) ==
    \E a, b \in 0..Len(s) :
        /\ a + Len(t) + b = Len(s)
        /\ \A i \in 1..Len(t) : t[i] = s[a + i]
        /\ \A i \in 1..a : s[i] = " "
        /\ \A i \in (Len(s) - b + 1)..Len(s) : s[i] = " "
        /\ t # EmptyStr => t[1] # " " /\ t[Len(t)] # " "

\* the first segment whose trimmed text is c
FirstOccurrence(c, segs) ==
    CHOOSE k \in 1..Len(segs) :
        IsTrimOf(c, segs[k]) /\ \A m \in 1..(k - 1) : ~IsTrimOf(c, segs[m])

\* C9: the chunks load_and_chunk_pdf returns are non-empty after trimming,
\* pairwise different, and are the trimmed non-empty segments in the order of
\* their first occurrence.
C9_ChunksTrimmedUniqueOrdered ==
    call.op = "load_and_chunk_pdf"
    => LET segs == call.segs
           chunks == call.chunks
       IN  /\ \A i \in 1..Len(chunks) : NonSpace(chunks[i])
           /\ \A i, j \in 1..Len(chunks) : chunks[i] = chunks[j] => i = j
           /\ \A i \in 1..Len(chunks) : \E k \in 1..Len(segs) : IsTrimOf(chunks[i], segs[k])
           /\ \A k \in 1..Len(segs) :
                NonSpace(segs[k]) => \E i \in 1..Len(chunks) : IsTrimOf(chunks[i], segs[k])
           /\ \A i, j \in 1..Len(chunks) :
                i < j => FirstOccurrence(chunks[i], segs) < FirstOccurrence(chunks[j], segs)

\* C9 witness: of three segments, the third repeats the first up to
\* whitespace and is dropped
C9_Witness ==
    /\ call.op = "load_and_chunk_pdf"
    /\ Len(call.segs) = 3
    /\ Len(call.chunks) = 2
    /\ call.segs[1] # call.segs[3]
    /\ IsTrimOf(call.chunks[1], call.segs[1])
    /\ IsTrimOf(call.chunks[1], call.segs[3])
    /\ IsTrimOf(call.chunks[2], call.segs[2])

-----------------------------------------------------------------------------
(* Properties of the embedder *)

\* C10: embed_texts returns one vector per text, vector i being the
\* provider's embedding of text i, and every batch it sends the provider has
\* at least one and at most MAX_EMBED_BATCH texts.
C10_EmbedLengthOrderBatches ==
    call.op = "embed_texts"
    => /\ Len(call.vectors) = Len(call.texts)
       /\ \A i \in 1..Len(call.texts) : call.vectors[i] = Embedding(call.texts[i])
       /\ \A k \in 1..Len(call.batches) :
            Len(call.batches[k]) >= 1 /\ Len(call.batches[k]) <= MAX_EMBED_BATCH

\* C10 witness: MAX_EMBED_BATCH + 1 texts were embedded in two batches
C10_Witness ==
    /\ call.op = "embed_texts"
    /\ Len(call.texts) = MAX_EMBED_BATCH + 1
    /\ Len(call.batches) = 2
    /\ Len(call.vectors) = MAX_EMBED_BATCH + 1

-----------------------------------------------------------------------------
(* Properties of the adapter under concurrent clients *)

\* the constructor of client c has returned (its upsert may have followed)
Opened(c) ==
    \/ call[c].pc \in {"open", "done"}
    \/ call[c].pc = "raised" /\ call[c].error # "Conflict"

\* C12: the constructor returns, and an upsert or a search can follow, only on
\* a collection whose dimension is the configured EMBEDDING_DIM (on another
\* dimension it fails); on an existing collection of the configured dimension
\* it leaves the store as it is.
C12_OpenChecksDimension ==
    /\ [](\A c \in Clients : Opened(c) => store.dim = EMBEDDING_DIM)
    /\ [][\A c \in Clients :
            (call[c].pc = "new" /\ call'[c].pc = "open" /\ store.dim = EMBEDDING_DIM)
            => store' = store
         ]_vars

\* C18: under concurrent constructions no create_collection is issued for a
\* collection that exists, and no constructor fails.
C18_CreateOnce ==
    /\ [][\A c \in Clients :
            (call[c].pc = "create" /\ call'[c].pc # "create") => ~store.exists
         ]_vars
    /\ [](\A c \in Clients : call[c].error # "Conflict")

\* C20: an upsert call whose three sequences differ in length fails and
\* writes no point.
C20_UpsertEqualLengths ==
    [][\A c \in Clients :
        (/\ call[c].pc = "open" /\ call'[c].pc # "open"
         /\ \/ Len(call'[c].vectors) # Len(call'[c].ids)
            \/ Len(call'[c].payloads) # Len(call'[c].ids))
        => /\ call'[c].pc = "raised"
           /\ store'.points = store.points
      ]_vars

-----------------------------------------------------------------------------
(* Properties of the identity *)

\* C13: the id of a pair (source_id, index) is the same every time it is
\* computed, equal pairs have equal ids, and two different pairs have
\* different names, hence (the hash not colliding) different ids.
C13_PointIdFunctionInjective ==
    call.op = "point_id"
    => /\ call.again = call.id_a
       /\ call.a = call.b => call.id_a = call.id_b
       /\ call.a # call.b => call.name_a # call.name_b /\ call.id_a # call.id_b

\* C13 witness: two pairs of different sources and different indices whose
\* names have the same length and the same characters but for one
C13_Witness ==
    /\ call.op = "point_id"
    /\ call.a[1] # call.b[1]
    /\ call.a[2] # call.b[2]
    /\ Len(call.name_a) = Len(call.name_b)
    /\ Cardinality({k \in 1..Len(call.name_a) : call.name_a[k] # call.name_b[k]}) = 1
    /\ call.id_a # call.id_b

====
